---------------------------- MODULE Spec2Model ----------------------------
(***************************************************************************)
(* A model of the field-service application of src/app.py: customers,      *)
(* addresses, zones, jobs and job history, the handlers that change them    *)
(* and the queries (due list, schedule list, earnings) that read them.      *)
(*                                                                          *)
(* Time is counted in ticks, TicksPerDay ticks to a day.  Text submitted in *)
(* a form is a sequence of one-character strings, so that int() and float() *)
(* are computed and not assumed.  SQL NULL / Python None is NULL for        *)
(* numbers and NoneStr for text.                                            *)
(***************************************************************************)
EXTENDS Integers, Sequences, FiniteSets, TLC

(***************************************************************************)
(* Bounds of the model.                                                     *)
(***************************************************************************)
MaxJobs == 2
MaxHistory == 2
MaxZones == 1
MaxCustomers == 1
MaxAddresses == 2
MaxWeeks == 1
TicksPerDay == 2

(***************************************************************************)
(* Values of the program.                                                   *)
(***************************************************************************)
NULL == -1000
NoneStr == <<"<None>">>
DaysPerWeek == 7
NumWeeks == 8
PAYMENT_TYPE_IDS == {1, 2, 3}

TicksPerWeek == DaysPerWeek * TicksPerDay

(***************************************************************************)
(* Python: truth value of a form field, str.strip(), int(), float().        *)
(***************************************************************************)
Truthy(raw) == raw # NoneStr /\ raw # <<>>

Digits == {"0", "1", "2", "3", "4", "5", "6", "7", "8", "9"}

DigitVal(c) ==
  CASE c = "0" -> 0 [] c = "1" -> 1 [] c = "2" -> 2 [] c = "3" -> 3
    [] c = "4" -> 4 [] c = "5" -> 5 [] c = "6" -> 6 [] c = "7" -> 7
    [] c = "8" -> 8 [] c = "9" -> 9

RECURSIVE LStrip(_)
LStrip(s) == IF s # <<>> /\ Head(s) = " " THEN LStrip(Tail(s)) ELSE s

RECURSIVE RStrip(_)
RStrip(s) ==
  IF s # <<>> /\ s[Len(s)] = " " THEN RStrip(SubSeq(s, 1, Len(s) - 1)) ELSE s

Strip(s) == RStrip(LStrip(s))

AllDigits(s) == s # <<>> /\ \A i \in 1..Len(s) : s[i] \in Digits

RECURSIVE DigitsVal(_)
DigitsVal(s) ==
  IF s = <<>> THEN 0
  ELSE DigitsVal(SubSeq(s, 1, Len(s) - 1)) * 10 + DigitVal(s[Len(s)])

\* int(raw): [ok |-> TRUE, val |-> n], or ok = FALSE for TypeError (None) and
\* ValueError (no digits, a letter, a decimal point).
PyInt(raw) ==
  IF raw = NoneStr THEN [ok |-> FALSE, val |-> 0]
  ELSE LET s == Strip(raw)
           signed == s # <<>> /\ Head(s) \in {"-", "+"}
           body == IF signed THEN Tail(s) ELSE s
       IN IF AllDigits(body)
          THEN [ok |-> TRUE,
                val |-> IF signed /\ Head(s) = "-" THEN 0 - DigitsVal(body)
                        ELSE DigitsVal(body)]
          ELSE [ok |-> FALSE, val |-> 0]

\* The place of the first "." of s, or 0.
RECURSIVE DotAt(_, _)
DotAt(s, i) ==
  IF i > Len(s) THEN 0 ELSE IF s[i] = "." THEN i ELSE DotAt(s, i + 1)

\* float(raw) of a decimal numeral, in hundredths (the column is
\* Numeric(10, 2)); ok = FALSE for ValueError.
PyFloat(raw) ==
  IF raw = NoneStr THEN [ok |-> FALSE, val |-> 0]
  ELSE LET s == Strip(raw)
           signed == s # <<>> /\ Head(s) \in {"-", "+"}
           body == IF signed THEN Tail(s) ELSE s
           dot == DotAt(body, 1)
           whole == IF dot = 0 THEN body ELSE SubSeq(body, 1, dot - 1)
           frac == IF dot = 0 THEN <<>> ELSE SubSeq(body, dot + 1, Len(body))
           frac2 == SubSeq(frac \o <<"0", "0">>, 1, 2)
           wellFormed == /\ whole \o frac # <<>>
                         /\ \A i \in 1..Len(whole) : whole[i] \in Digits
                         /\ \A i \in 1..Len(frac) : frac[i] \in Digits
                         /\ Len(frac) <= 2
           mag == DigitsVal(whole) * 100 + DigitsVal(frac2)
       IN IF wellFormed
          THEN [ok |-> TRUE,
                val |-> IF signed /\ Head(s) = "-" THEN 0 - mag ELSE mag]
          ELSE [ok |-> FALSE, val |-> 0]

\* parse_payment_type_id without its test of membership in PAYMENT_TYPE_MAP.
parse_payment_type_id_AnyNumber(raw_value) ==
  IF PyInt(raw_value).ok THEN PyInt(raw_value).val ELSE NULL

\* parse_payment_type_id
parse_payment_type_id(raw_value) ==
  LET r == PyInt(raw_value)
  IN IF ~r.ok THEN NULL
     ELSE IF r.val \in PAYMENT_TYPE_IDS THEN r.val ELSE NULL


(***************************************************************************)
(* The values a request can carry.  Each specification below draws its      *)
(* requests from the sets that bear on it and holds the other fields fixed. *)
(***************************************************************************)
PriceInputs == {<<>>, <<"5", "0">>, <<"3", "0">>, <<"a">>}
FrequencyInputs == {<<>>, <<"1">>, <<"0">>, <<"x">>}
ZoneIdInputs == {NoneStr, <<"1">>, <<"2">>, <<"x">>}
CustomerIdInputs == {<<>>, <<"1">>, <<"x">>}
HouseInputs == {<<>>, <<"1">>, <<"2">>}
PostcodeInputs == {NoneStr, <<"P">>}
ZoneNameInputs == {<<>>, <<"N">>}
TelephoneInputs == {<<>>, <<"7">>, <<"7", " ", "7">>, <<"x">>}
PaidInputs == {NoneStr, <<"t", "r", "u", "e">>, <<"o", "n">>}
PaymentTypeInputs == {NoneStr, <<>>, <<"x">>, <<"0">>, <<"1">>, <<"3">>, <<"4">>}

NoAddress == [house_number |-> <<>>, street |-> <<>>, postcode |-> NoneStr]

AddressForms ==
  [house_number : HouseInputs, street : {<<"S">>}, postcode : PostcodeInputs]

\* A job form: the address fields of a, and the other fields as given.
JobForm(a, customer_id, price, frequency, zone_id) ==
  [house_number |-> a.house_number, street |-> a.street,
   postcode |-> a.postcode, customer_id |-> customer_id, price |-> price,
   frequency |-> frequency, zone_id |-> zone_id]

\* Forms that differ in the frequency and the zone.
ScheduleForms ==
  {JobForm(NoAddress, <<>>, <<"5", "0">>, f, z) :
     f \in FrequencyInputs, z \in {<<"1">>}}

\* Forms that differ in the address and the zone.
AddressJobForms ==
  {JobForm(a, <<>>, <<>>, <<>>, z) :
     a \in AddressForms \cup {NoAddress}, z \in {<<"1">>, <<"x">>}}

\* Forms that differ in the price.
PriceForms ==
  {JobForm(NoAddress, <<>>, p, <<>>, <<"1">>) : p \in PriceInputs}

\* paid=true with every payment type, and the other values of paid with and
\* without one.
CompleteForms ==
  [paid : {<<"t", "r", "u", "e">>}, payment_type_id : PaymentTypeInputs]
    \cup [paid : PaidInputs, payment_type_id : {NoneStr, <<"1">>}]

\* The ids a request path can name.
JobIds == 1..MaxJobs
HistoryIds == 1..MaxHistory
ZoneIds == 1..MaxZones
CustomerIds == 1..MaxCustomers

(***************************************************************************)
(* The database: one function per table, from primary key to row, and the   *)
(* last key each table's autoincrement gave out.  now is the clock;         *)
(* response is what the last handler answered (the message it flashed, or   *)
(* "404").  inflight holds the requests that have read the database and    *)
(* not yet committed; a handler that runs alone is one step and leaves it   *)
(* as it is.                                                                *)
(***************************************************************************)
VARIABLES customers, addresses, zones, jobs, history, autoinc, now, response,
          inflight

vars ==
  <<customers, addresses, zones, jobs, history, autoinc, now, response,
    inflight>>

tables == <<customers, addresses, zones, jobs, history, autoinc>>

Insert(table, id, row) ==
  [i \in DOMAIN table \cup {id} |-> IF i = id THEN row ELSE table[i]]

Delete(table, id) == [i \in DOMAIN table \ {id} |-> table[i]]

NoRows == [i \in {} |-> 0]

Init ==
  /\ customers = NoRows
  /\ addresses = NoRows
  /\ zones = NoRows
  /\ jobs = NoRows
  /\ history = NoRows
  /\ autoinc = [customer |-> 0, address |-> 0, zone |-> 0, job |-> 0,
                history |-> 0]
  /\ now = 0
  /\ response = "none"
  /\ inflight = NoRows

\* A handler that answers without committing: the session is discarded with
\* the request, so nothing it wrote is kept.
Answer(msg) == /\ response' = msg
               /\ UNCHANGED <<tables, now, inflight>>

(***************************************************************************)
(* The clock.  It is read at the instants next to a week's boundary.        *)
(***************************************************************************)
DateOf(t) == t \div TicksPerDay

Instants(weeks) ==
  {t \in 0..((weeks + 1) * TicksPerWeek - 1) :
     (t % TicksPerWeek) \in {0, 1, TicksPerWeek - 1}}

TickIn(S) == /\ \E t \in S : t > now /\ now' = t
             /\ UNCHANGED <<tables, response, inflight>>

Tick == TickIn(Instants(MaxWeeks))

(***************************************************************************)
(* Address resolution, as each handler that takes an address does it:       *)
(* Address.query.filter_by(...).first(), else a new row.  first() has no    *)
(* ORDER BY: any matching row may be the one returned.                      *)
(***************************************************************************)
\* AddressMatches without the postcode in its filter.
AddressMatches_NoPostcode(tbl, h, s, p) ==
  {a \in DOMAIN tbl : tbl[a].house_num_name = h /\ tbl[a].street_name = s}

AddressMatches(tbl, h, s, p) ==
  {a \in DOMAIN tbl : /\ tbl[a].house_num_name = h
                      /\ tbl[a].street_name = s
                      /\ tbl[a].postcode = p}

AddressGiven(form) == Truthy(form.house_number) /\ Truthy(form.street)

\* The outcomes of resolving form's address: the id, the table and the
\* autoincrement after it.  None when a new row is needed and the table is
\* at the model's bound.
ResolveAddress(form) ==
  LET m == AddressMatches(addresses, form.house_number, form.street,
                          form.postcode)
      new == autoinc.address + 1
  IN IF m # {}
     THEN {[id |-> a, addresses |-> addresses, autoinc |-> autoinc] : a \in m}
     ELSE IF new > MaxAddresses THEN {}
     ELSE {[id |-> new,
            addresses |-> Insert(addresses, new,
                                 [house_num_name |-> form.house_number,
                                  street_name |-> form.street,
                                  postcode |-> form.postcode]),
            autoinc |-> [autoinc EXCEPT !.address = new]]}

\* The address part of a job handler: no address when the form gives none.
JobAddress(form) ==
  IF AddressGiven(form) THEN ResolveAddress(form)
  ELSE {[id |-> NULL, addresses |-> addresses, autoinc |-> autoinc]}

(***************************************************************************)
(* Zones and customers.                                                     *)
(***************************************************************************)
add_zone(zone_name) ==
  IF ~Truthy(zone_name) THEN Answer("Zone name is required")
  ELSE /\ autoinc.zone < MaxZones
       /\ zones' = Insert(zones, autoinc.zone + 1, [name |-> zone_name])
       /\ autoinc' = [autoinc EXCEPT !.zone = autoinc.zone + 1]
       /\ response' = "Zone added successfully!"
       /\ UNCHANGED <<customers, addresses, jobs, history, now, inflight>>

\* Job.zone_id is no foreign key: the jobs of a deleted zone keep its id.
delete_zone(id) ==
  IF id \notin DOMAIN zones THEN Answer("404")
  ELSE /\ zones' = Delete(zones, id)
       /\ response' = "Zone deleted successfully!"
       /\ UNCHANGED <<customers, addresses, jobs, history, autoinc, now,
                      inflight>>

\* The telephone check of add_customer and edit_customer: "" when accepted.
TelephoneError(telephone) ==
  IF ~Truthy(telephone) THEN ""
  ELSE IF \E i \in 1..Len(Strip(telephone)) : Strip(telephone)[i] = " "
       THEN "Telephone number cannot contain spaces."
  ELSE IF ~PyInt(Strip(telephone)).ok
       THEN "Telephone number must contain only digits."
  ELSE ""

\* After its commit, and still inside its try, add_customer builds the URL
\* it redirects to: url_for('add_customer_to_job', id=return_to_job) when the
\* query string has return_to_job.  The route's <int:id> converter calls
\* int() on it, which raises for text that is no number; the except branch
\* then rolls back a transaction that is already committed and flashes the
\* error.
add_customer(telephone, return_to_job) ==
  IF TelephoneError(telephone) # "" THEN Answer(TelephoneError(telephone))
  ELSE /\ autoinc.customer < MaxCustomers
       /\ customers' = Insert(customers, autoinc.customer + 1,
                              [address_id |-> NULL])
       /\ autoinc' = [autoinc EXCEPT !.customer = autoinc.customer + 1]
       /\ response' = IF Truthy(return_to_job) /\ ~PyInt(return_to_job).ok
                      THEN "Error adding customer"
                      ELSE "Customer added successfully!"
       /\ UNCHANGED <<addresses, zones, jobs, history, now, inflight>>

\* Deleting a customer: the relationship Job.customer (backref jobs) sets
\* customer_id of the customer's jobs to NULL.
delete_customer(id) ==
  IF id \notin DOMAIN customers THEN Answer("404")
  ELSE /\ customers' = Delete(customers, id)
       /\ jobs' = [j \in DOMAIN jobs |->
                     IF jobs[j].customer_id = id
                     THEN [jobs[j] EXCEPT !.customer_id = NULL] ELSE jobs[j]]
       /\ response' = "Customer deleted successfully!"
       /\ UNCHANGED <<addresses, zones, history, autoinc, now, inflight>>

add_invoice_address(customer_id, form) ==
  IF customer_id \notin DOMAIN customers
  THEN Answer("Error updating invoice address")
  ELSE IF ~AddressGiven(form)
       THEN Answer("Please fill in all required address fields")
  ELSE \E r \in ResolveAddress(form) :
         /\ addresses' = r.addresses
         /\ autoinc' = r.autoinc
         /\ customers' = [customers EXCEPT ![customer_id].address_id = r.id]
         /\ response' = "Invoice address updated successfully!"
         /\ UNCHANGED <<zones, jobs, history, now, inflight>>

\* The row of a customer keeps its address_id: the fields edit_customer
\* writes (forename, surname, email, telephone) are not part of the model.
edit_customer(id, telephone) ==
  IF id \notin DOMAIN customers THEN Answer("404")
  ELSE IF TelephoneError(telephone) # "" THEN Answer(TelephoneError(telephone))
  ELSE Answer("Customer updated successfully!")

\* get_or_404 is inside the try: its NotFound is caught with every other
\* Exception, flashed, and answered with a redirect to the customers' list.
customer_detail(id) ==
  IF id \notin DOMAIN customers THEN Answer("Error loading customer")
  ELSE Answer("customers/detail.html")

(***************************************************************************)
(* Jobs.                                                                    *)
(***************************************************************************)
\* price = float(form.price) when given and a number, else None.
ParsePrice(raw) ==
  IF Truthy(raw) /\ PyFloat(raw).ok THEN PyFloat(raw).val ELSE NULL

\* frequency_weeks = int(form.frequency) when given and a number, else None;
\* frequency_days = frequency_weeks * 7 if frequency_weeks else None.
FrequencyDays(raw) ==
  LET frequency_weeks ==
        IF Truthy(raw) /\ PyInt(raw).ok THEN PyInt(raw).val ELSE NULL
  IN IF frequency_weeks # NULL /\ frequency_weeks # 0
     THEN frequency_weeks * DaysPerWeek ELSE NULL

\* add_job's customer: given, a number and an existing customer, else None.
OptionalCustomer(raw) ==
  IF Truthy(raw) /\ PyInt(raw).ok /\ PyInt(raw).val \in DOMAIN customers
  THEN PyInt(raw).val ELSE NULL

\* The zone check of add_job and add_job_for_customer: "" when accepted.
ZoneError(raw) ==
  IF ~Truthy(raw) THEN "Please select a zone for the job."
  ELSE IF ~PyInt(raw).ok \/ PyInt(raw).val \notin DOMAIN zones
       THEN "Invalid zone selected."
  ELSE ""

\* request.form.get('info'): None when the form has no such field.
FormInfo(form) == IF "info" \in DOMAIN form THEN form.info ELSE NoneStr

\* The row of a new job: dateLastDone and date_next_due are not given.
NewJob(customer_id, form, address_id) ==
  [customer_id |-> customer_id,
   price |-> ParsePrice(form.price),
   frequency |-> FrequencyDays(form.frequency),
   address_id |-> address_id,
   zone_id |-> PyInt(form.zone_id).val,
   info |-> FormInfo(form),
   dateLastDone |-> NULL,
   date_next_due |-> NULL]

\* CreateJob whose flush of a new address stays when the zone is rejected.
CreateJob_KeepsFlush(customer_id, form) ==
  \E r \in JobAddress(form) :
    IF ZoneError(form.zone_id) # ""
    THEN /\ addresses' = r.addresses
         /\ autoinc' = r.autoinc
         /\ response' = ZoneError(form.zone_id)
         /\ UNCHANGED <<customers, zones, jobs, history, now, inflight>>
    ELSE /\ autoinc.job < MaxJobs
         /\ jobs' = Insert(jobs, autoinc.job + 1,
                           NewJob(customer_id, form, r.id))
         /\ addresses' = r.addresses
         /\ autoinc' = [r.autoinc EXCEPT !.job = autoinc.job + 1]
         /\ response' = "Job added successfully!"
         /\ UNCHANGED <<customers, zones, history, now, inflight>>

\* The address is resolved (and flushed) before the zone is checked; a
\* rejected request is answered without a commit.
CreateJob(customer_id, form) ==
  IF ZoneError(form.zone_id) # "" THEN Answer(ZoneError(form.zone_id))
  ELSE \E r \in JobAddress(form) :
         /\ autoinc.job < MaxJobs
         /\ jobs' = Insert(jobs, autoinc.job + 1,
                           NewJob(customer_id, form, r.id))
         /\ addresses' = r.addresses
         /\ autoinc' = [r.autoinc EXCEPT !.job = autoinc.job + 1]
         /\ response' = "Job added successfully!"
         /\ UNCHANGED <<customers, zones, history, now, inflight>>

add_job(form) == CreateJob(OptionalCustomer(form.customer_id), form)

add_job_for_customer(customer_id, form) ==
  IF customer_id \notin DOMAIN customers THEN Answer("Error adding job")
  ELSE CreateJob(customer_id, form)

\* EditedJob that also recomputes date_next_due from the edited frequency.
EditedJob_Reschedule(job, form, address_id) ==
  LET frequency_days == FrequencyDays(form.frequency)
  IN [job EXCEPT
        !.address_id = address_id,
        !.price = ParsePrice(form.price),
        !.frequency = frequency_days,
        !.date_next_due = IF frequency_days = NULL THEN NULL
                          ELSE now + frequency_days * TicksPerDay,
        !.zone_id = IF Truthy(form.zone_id) THEN PyInt(form.zone_id).val
                    ELSE NULL,
        !.info = FormInfo(form)]

\* EditedJob that leaves date_next_due as it is when no frequency is stored.
EditedJob_KeepsDue(job, form, address_id) ==
  [job EXCEPT
     !.address_id = address_id,
     !.price = ParsePrice(form.price),
     !.frequency = FrequencyDays(form.frequency),
     !.zone_id = IF Truthy(form.zone_id) THEN PyInt(form.zone_id).val
                 ELSE NULL,
     !.info = FormInfo(form)]

\* EditedJob that clears dateLastDone with date_next_due.
EditedJob_ClearsLastDone(job, form, address_id) ==
  LET frequency_days == FrequencyDays(form.frequency)
  IN [job EXCEPT
        !.address_id = address_id,
        !.price = ParsePrice(form.price),
        !.frequency = frequency_days,
        !.date_next_due = IF frequency_days = NULL THEN NULL ELSE @,
        !.dateLastDone = IF frequency_days = NULL THEN NULL ELSE @,
        !.zone_id = IF Truthy(form.zone_id) THEN PyInt(form.zone_id).val
                    ELSE NULL,
        !.info = FormInfo(form)]

\* job.zone_id = int(zone_id) if zone_id and zone_id != '' else None: a zone
\* id that is no number raises, and the edit is rolled back.
EditedJob(job, form, address_id) ==
  LET frequency_days == FrequencyDays(form.frequency)
  IN [job EXCEPT
        !.address_id = address_id,
        !.price = ParsePrice(form.price),
        !.frequency = frequency_days,
        !.date_next_due = IF frequency_days = NULL THEN NULL ELSE @,
        !.zone_id = IF Truthy(form.zone_id) THEN PyInt(form.zone_id).val
                    ELSE NULL,
        !.info = FormInfo(form)]

edit_job(id, form) ==
  IF id \notin DOMAIN jobs THEN Answer("404")
  ELSE IF Truthy(form.zone_id) /\ ~PyInt(form.zone_id).ok
       THEN Answer("Error updating job")
  ELSE \E r \in IF AddressGiven(form) THEN ResolveAddress(form)
                ELSE {[id |-> jobs[id].address_id, addresses |-> addresses,
                       autoinc |-> autoinc]} :
         /\ jobs' = [jobs EXCEPT ![id] = EditedJob(jobs[id], form, r.id)]
         /\ addresses' = r.addresses
         /\ autoinc' = r.autoinc
         /\ response' = "Job updated successfully!"
         /\ UNCHANGED <<customers, zones, history, now, inflight>>

HistoryOf(id) == {h \in DOMAIN history : history[h].job_id = id}

\* The relationship JobHistory.job (backref history) sets job_id of the
\* job's history rows to NULL, which the column (nullable=False) refuses:
\* a job with history is not deleted.
delete_job(id) ==
  IF id \notin DOMAIN jobs THEN Answer("404")
  ELSE IF HistoryOf(id) # {} THEN Answer("Error deleting job")
  ELSE /\ jobs' = Delete(jobs, id)
       /\ response' = "Job deleted successfully!"
       /\ UNCHANGED <<customers, addresses, zones, history, autoinc, now,
                      inflight>>

add_customer_to_job(id, customer_id) ==
  IF id \notin DOMAIN jobs THEN Answer("404")
  ELSE IF ~Truthy(customer_id)
       THEN /\ jobs' = [jobs EXCEPT ![id].customer_id = NULL]
            /\ response' = "Customer information updated successfully!"
            /\ UNCHANGED <<customers, addresses, zones, history, autoinc, now,
                           inflight>>
  ELSE IF ~PyInt(customer_id).ok \/ PyInt(customer_id).val \notin DOMAIN customers
       THEN Answer("Error updating customer")
  ELSE /\ jobs' = [jobs EXCEPT ![id].customer_id = PyInt(customer_id).val]
       /\ response' = "Customer information updated successfully!"
       /\ UNCHANGED <<customers, addresses, zones, history, autoinc, now,
                      inflight>>

\* first_or_404 is inside the try, as in customer_detail.
job_detail(id) ==
  IF id \notin DOMAIN jobs THEN Answer("Error loading job")
  ELSE Answer("jobs/detail.html")

(***************************************************************************)
(* Completion and payment.  complete_job reads the clock three times: for   *)
(* dateLastDone, for date_next_due and for the history row's timestamp.     *)
(***************************************************************************)
ClockDrift == 1

\* The three clock readings of one request.
ClockReads ==
  {r \in [today : now..(now + ClockDrift), due : now..(now + ClockDrift),
          stamp : now..(now + ClockDrift)] :
     r.today <= r.due /\ r.due <= r.stamp}

IsPaid(form) == form.paid = <<"t", "r", "u", "e">>

\* CompletedJob that sets date_next_due without looking at the frequency.
CompletedJob_DueWithoutFrequency(job, r) ==
  [job EXCEPT
     !.dateLastDone = DateOf(r.today),
     !.date_next_due = IF job.frequency # NULL
                       THEN r.due + job.frequency * TicksPerDay ELSE r.due]

\* job after its completion read at r.
CompletedJob(job, r) ==
  [job EXCEPT
     !.dateLastDone = DateOf(r.today),
     !.date_next_due = IF job.frequency # NULL /\ job.frequency # 0
                       THEN r.due + job.frequency * TicksPerDay ELSE NULL]

NewHistory(id, form, r) ==
  [job_id |-> id,
   timestamp |-> r.stamp,
   paid |-> IsPaid(form),
   payment_type_id |-> IF IsPaid(form)
                       THEN parse_payment_type_id(form.payment_type_id)
                       ELSE NULL]

complete_job(id, form) ==
  IF id \notin DOMAIN jobs THEN Answer("404")
  ELSE IF IsPaid(form) /\ parse_payment_type_id(form.payment_type_id) = NULL
       THEN Answer("Please select how the job was paid.")
  ELSE \E r \in ClockReads :
         /\ autoinc.history < MaxHistory
         /\ jobs' = [jobs EXCEPT ![id] = CompletedJob(jobs[id], r)]
         /\ history' = Insert(history, autoinc.history + 1,
                              NewHistory(id, form, r))
         /\ autoinc' = [autoinc EXCEPT !.history = autoinc.history + 1]
         /\ now' = r.stamp
         /\ response' = "Job marked as complete!"
         /\ UNCHANGED <<customers, addresses, zones, inflight>>

\* mark_job_paid that flips the paid flag.
mark_job_paid_Toggle(history_id) ==
  IF history_id \notin DOMAIN history THEN Answer("Error recording payment")
  ELSE /\ history' = [history EXCEPT ![history_id].paid = ~@]
       /\ response' = "Payment recorded successfully!"
       /\ UNCHANGED <<customers, addresses, zones, jobs, autoinc, now,
                      inflight>>

mark_job_paid(history_id) ==
  IF history_id \notin DOMAIN history THEN Answer("Error recording payment")
  ELSE /\ history' = [history EXCEPT ![history_id].paid = TRUE]
       /\ response' = "Payment recorded successfully!"
       /\ UNCHANGED <<customers, addresses, zones, jobs, autoinc, now,
                      inflight>>

(***************************************************************************)
(* Queries.  A filter keeps the rows whose condition is true in SQL's       *)
(* three-valued logic: a comparison with NULL is unknown ("U"), and a row   *)
(* whose condition is unknown is not kept.                                  *)
(***************************************************************************)
SqlLe(a, b) == IF a = NULL \/ b = NULL THEN "U" ELSE IF a <= b THEN "T" ELSE "F"

SqlIsNull(a) == IF a = NULL THEN "T" ELSE "F"

SqlIsNotNull(a) == IF a = NULL THEN "F" ELSE "T"

SqlAnd(p, q) ==
  IF p = "F" \/ q = "F" THEN "F" ELSE IF p = "T" /\ q = "T" THEN "T" ELSE "U"

SqlOr(p, q) ==
  IF p = "T" \/ q = "T" THEN "T" ELSE IF p = "F" /\ q = "F" THEN "F" ELSE "U"

\* build_due_condition without its test of dateLastDone.
build_due_condition_NoLastDone(job, reference_time) ==
  SqlOr(SqlLe(job.date_next_due, reference_time),
        SqlIsNull(job.date_next_due))

build_due_condition(job, reference_time) ==
  SqlOr(SqlLe(job.date_next_due, reference_time),
        SqlAnd(SqlIsNull(job.date_next_due), SqlIsNull(job.dateLastDone)))

\* build_schedule_condition without its test of dateLastDone.
build_schedule_condition_FrequencyOnly(job) == SqlIsNotNull(job.frequency)

build_schedule_condition(job) ==
  SqlOr(SqlIsNotNull(job.frequency), SqlIsNull(job.dateLastDone))

\* dashboard: Job.query.filter(build_due_condition(today)).count()
due_jobs_count(today) ==
  Cardinality({j \in DOMAIN jobs : build_due_condition(jobs[j], today) = "T"})

\* The jobs listed by jobs_due, and by the dashboard as jobs_by_due.
due_jobs == {j \in DOMAIN jobs : build_schedule_condition(jobs[j]) = "T"}

\* days_until_due of a listed job, at a request read at today.
days_until_due(job, today) ==
  IF job.date_next_due # NULL
  THEN DateOf(job.date_next_due) - DateOf(today) ELSE NULL

(***************************************************************************)
(* Earnings.  Each is a SUM over the rows of a query: SUM skips NULLs and   *)
(* is NULL when nothing is left, and the handler takes "or 0" of it.        *)
(***************************************************************************)
RECURSIVE SumOver(_, _)
SumOver(S, f) ==
  IF S = {} THEN 0
  ELSE LET x == CHOOSE y \in S : TRUE IN f[x] + SumOver(S \ {x}, f)

SqlSum(S, f) ==
  LET given == {x \in S : f[x] # NULL}
  IN IF given = {} THEN NULL ELSE SumOver(given, f)

OrZero(v) == IF v = NULL \/ v = 0 THEN 0 ELSE v

Coalesce(v, d) == IF v = NULL THEN d ELSE v

\* Job joined to JobHistory on Job.idjob == JobHistory.job_id, as pairs of
\* a job id and a history id.
JobsJoinHistory ==
  {p \in (DOMAIN jobs) \X (DOMAIN history) : history[p[2]].job_id = p[1]}

PriceOfPair(pairs) == [p \in pairs |-> jobs[p[1]].price]

IsUnpaid(h) == h.paid = FALSE
IsPaidRow(h) == h.paid = TRUE

\* unpaid_earnings with each job counted once, however many unpaid rows.
unpaid_earnings_PerJob ==
  LET owing == {j \in DOMAIN jobs :
                  \E h \in DOMAIN history :
                    history[h].job_id = j /\ history[h].paid = FALSE}
  IN OrZero(SqlSum(owing, [j \in owing |-> Coalesce(jobs[j].price, 0)]))

\* dashboard: sum(coalesce(Job.price, 0)) over the join, paid == False
unpaid_earnings ==
  LET pairs == {p \in JobsJoinHistory : IsUnpaid(history[p[2]])}
  IN OrZero(SqlSum(pairs, [p \in pairs |-> Coalesce(jobs[p[1]].price, 0)]))

\* theoretical_earnings summed over the join with JobHistory.
theoretical_earnings_PerCompletion ==
  LET pairs == JobsJoinHistory
  IN OrZero(SqlSum(pairs, PriceOfPair(pairs)))

\* stats: sum(Job.price) over the Jobs table
theoretical_earnings ==
  OrZero(SqlSum(DOMAIN jobs, [j \in DOMAIN jobs |-> jobs[j].price]))

\* stats: sum(Job.price) over the join, paid == True, when there is history
actual_earnings ==
  IF Cardinality(DOMAIN history) > 0
  THEN LET pairs == {p \in JobsJoinHistory : IsPaidRow(history[p[2]])}
       IN OrZero(SqlSum(pairs, PriceOfPair(pairs)))
  ELSE 0

(***************************************************************************)
(* stats: the weekly earnings of the last NumWeeks weeks, oldest first.     *)
(***************************************************************************)
\* The window's filter with its end included.
InWindow_EndIncluded(timestamp, week_start, week_end) ==
  timestamp >= week_start /\ timestamp <= week_end

\* JobHistory.timestamp >= week_start, JobHistory.timestamp < week_end
InWindow(timestamp, week_start, week_end) ==
  timestamp >= week_start /\ timestamp < week_end

\* The entry appended for i, of a request read at today.
WeekEntry(today, i) ==
  LET week_start == today - (i + 1) * TicksPerWeek
      week_end == today - i * TicksPerWeek
      all == {p \in JobsJoinHistory :
                InWindow(history[p[2]].timestamp, week_start, week_end)}
      paid == {p \in all : IsPaidRow(history[p[2]])}
  IN [week |-> DateOf(week_start),
      theoretical |-> OrZero(SqlSum(all, PriceOfPair(all))),
      actual |-> OrZero(SqlSum(paid, PriceOfPair(paid)))]

\* for i in range(7, -1, -1): weekly_earnings.append(...)
weekly_earnings(today) ==
  [k \in 1..NumWeeks |-> WeekEntry(today, NumWeeks - k)]

(***************************************************************************)
(* Spec: the life of a job.  Jobs are created, edited, completed, paid and  *)
(* deleted while the clock advances; the forms differ in the frequency and  *)
(* the zone.                                                                *)
(***************************************************************************)
Next ==
  \/ add_zone(<<"N">>)
  \/ \E f \in ScheduleForms : add_job(f)
  \/ \E j \in JobIds, f \in ScheduleForms : edit_job(j, f)
  \/ \E j \in JobIds : delete_job(j)
  \/ \E j \in JobIds, f \in CompleteForms : complete_job(j, f)
  \/ \E h \in HistoryIds : mark_job_paid(h)

Spec == Init /\ [][Next]_vars

(***************************************************************************)
(* SpecAll: every handler that writes, on forms with or without a           *)
(* frequency.                                                               *)
(***************************************************************************)
FrameForms ==
  {JobForm(NoAddress, <<>>, <<>>, f, z) :
     f \in {<<>>, <<"1">>}, z \in {<<"1">>}}

FrameCompleteForms ==
  {[paid |-> NoneStr, payment_type_id |-> NoneStr],
   [paid |-> <<"t", "r", "u", "e">>, payment_type_id |-> <<"1">>]}

FrameAddressForms ==
  {[NoAddress EXCEPT !.house_number = <<"1">>, !.street = <<"S">>]}

NextAll ==
  \/ add_zone(<<"N">>)
  \/ \E z \in ZoneIds : delete_zone(z)
  \/ add_customer(<<"7">>, NoneStr)
  \/ \E c \in CustomerIds : delete_customer(c)
  \/ \E c \in CustomerIds, f \in FrameAddressForms : add_invoice_address(c, f)
  \/ \E f \in FrameForms : add_job(f)
  \/ \E c \in CustomerIds, f \in FrameForms : add_job_for_customer(c, f)
  \/ \E j \in JobIds, f \in FrameForms : edit_job(j, f)
  \/ \E j \in JobIds : delete_job(j)
  \/ \E j \in JobIds, c \in {<<>>, <<"1">>} : add_customer_to_job(j, c)
  \/ \E j \in JobIds, f \in FrameCompleteForms : complete_job(j, f)
  \/ \E h \in HistoryIds : mark_job_paid(h)

SpecAll == Init /\ [][NextAll]_vars

(***************************************************************************)
(* Properties of Spec.                                                      *)
(***************************************************************************)
\* The reference times a query is asked at.
RefTimes == 0..((MaxWeeks + 1) * TicksPerWeek)

\* The payment types of a request that name no id of PAYMENT_TYPES.
InvalidPaymentTypes == {NoneStr, <<>>, <<"x">>, <<"0">>, <<"4">>}

\* C1: for every job and every reference time, build_due_condition selects
\* the job iff its date_next_due is set and not after the reference time, or
\* its date_next_due and its dateLastDone are both null; the dashboard counts
\* exactly these jobs.
C1_DueCondition ==
  \A t \in RefTimes :
    /\ \A j \in DOMAIN jobs :
         (build_due_condition(jobs[j], t) = "T")
           <=> \/ jobs[j].date_next_due # NULL /\ jobs[j].date_next_due <= t
               \/ jobs[j].date_next_due = NULL /\ jobs[j].dateLastDone = NULL
    /\ due_jobs_count(t) =
         Cardinality({j \in DOMAIN jobs :
                        \/ jobs[j].date_next_due # NULL
                             /\ jobs[j].date_next_due <= t
                        \/ jobs[j].date_next_due = NULL
                             /\ jobs[j].dateLastDone = NULL})

\* A completed job without a next due date (not selected) beside a job whose
\* due date has come and one whose due date has not.
C1_Witness ==
  /\ \E j \in DOMAIN jobs :
       /\ jobs[j].date_next_due = NULL /\ jobs[j].dateLastDone # NULL
       /\ \A t \in RefTimes : build_due_condition(jobs[j], t) # "T"
  /\ \E j \in DOMAIN jobs, t, u \in RefTimes :
       /\ jobs[j].date_next_due # NULL
       /\ build_due_condition(jobs[j], t) = "T"
       /\ build_due_condition(jobs[j], u) # "T"

\* C2: complete_job with paid=true and a payment type that is missing, no
\* number or no id of {1, 2, 3} is rejected and changes no table.
C2_InvalidPaymentRejected ==
  [][\A j \in JobIds, f \in CompleteForms :
       (/\ j \in DOMAIN jobs
        /\ f.paid = <<"t", "r", "u", "e">>
        /\ f.payment_type_id \in InvalidPaymentTypes
        /\ complete_job(j, f))
         => /\ response' = "Please select how the job was paid."
            /\ UNCHANGED tables]_vars

C2_Witness ==
  /\ response = "Please select how the job was paid."
  /\ DOMAIN jobs # {}

\* C3: an accepted complete_job has one completion time now: dateLastDone is
\* now's date, date_next_due is now plus the frequency (null without one),
\* and exactly one history row is added, for this job, stamped now, with the
\* paid flag given and the payment type given when paid and null when not;
\* no other job and no existing history row changes.
C3_CompletionEffects ==
  [][\A j \in JobIds, f \in CompleteForms :
       (complete_job(j, f) /\ response' = "Job marked as complete!")
         => \E t \in now..now' :
              /\ jobs'[j].dateLastDone = DateOf(t)
              /\ jobs'[j].date_next_due =
                   IF jobs[j].frequency # NULL
                   THEN t + jobs[j].frequency * TicksPerDay ELSE NULL
              /\ \A k \in DOMAIN jobs \ {j} : jobs'[k] = jobs[k]
              /\ DOMAIN jobs' = DOMAIN jobs
              /\ \E h \in DOMAIN history' \ DOMAIN history :
                   /\ DOMAIN history' = DOMAIN history \cup {h}
                   /\ history'[h].job_id = j
                   /\ history'[h].timestamp = t
                   /\ history'[h].paid = (f.paid = <<"t", "r", "u", "e">>)
                   /\ history'[h].payment_type_id =
                        IF f.paid = <<"t", "r", "u", "e">>
                        THEN PyInt(f.payment_type_id).val ELSE NULL
              /\ \A h \in DOMAIN history : history'[h] = history[h]]_vars

C9_NewJobDue ==
  [][/\ \A j \in DOMAIN jobs' \ DOMAIN jobs : HistoryOf(j)' = {}
     /\ \A j \in DOMAIN jobs' :
          HistoryOf(j)' = {}
            => /\ jobs'[j].dateLastDone = NULL
               /\ jobs'[j].date_next_due = NULL
               /\ j \in due_jobs'
               /\ \A t \in RefTimes :
                    build_due_condition(jobs'[j], t) = "T"]_vars

\* A job with a frequency that was edited and not completed.
C9_Witness ==
  /\ response = "Job updated successfully!"
  /\ \E j \in DOMAIN jobs :
       /\ DOMAIN jobs = {j}
       /\ HistoryOf(j) = {}
       /\ jobs[j].frequency # NULL

(***************************************************************************)
(* Properties of SpecAll.                                                   *)
(***************************************************************************)
\* C8: a step changes the date_next_due of an existing job only when it is
\* complete_job on that job, or edit_job on that job with no frequency to
\* store, which sets it to null; every other handler, and an edit_job that
\* stores a frequency, leaves every job's date_next_due as it was.
C8_DueDateFrame ==
  [][\A j \in DOMAIN jobs \cap DOMAIN jobs' :
       jobs'[j].date_next_due # jobs[j].date_next_due
         => \/ /\ response' = "Job marked as complete!"
               /\ \E f \in FrameCompleteForms : complete_job(j, f)
            \/ /\ response' = "Job updated successfully!"
               /\ jobs'[j].date_next_due = NULL
               /\ \E f \in FrameForms :
                    edit_job(j, f) /\ FrequencyDays(f.frequency) = NULL]_vars

\* After an edit that stored no frequency on a completed job, beside a job
\* whose next due date is still set.
C8_Witness ==
  /\ response = "Job updated successfully!"
  /\ \E j, k \in DOMAIN jobs :
       /\ jobs[j].dateLastDone # NULL
       /\ jobs[j].frequency = NULL
       /\ jobs[j].date_next_due = NULL
       /\ jobs[k].date_next_due # NULL

(***************************************************************************)
(* SpecAddr: the handlers that set an address, on forms that differ in the  *)
(* address and in whether the zone is accepted.                             *)
(***************************************************************************)
NextAddr ==
  \/ add_zone(<<"N">>)
  \/ add_customer(<<"7">>, NoneStr)
  \/ \E c \in CustomerIds, f \in AddressForms \cup {NoAddress} :
       add_invoice_address(c, f)
  \/ \E f \in AddressJobForms : add_job(f)
  \/ \E c \in CustomerIds, f \in AddressJobForms : add_job_for_customer(c, f)
  \/ \E j \in JobIds, f \in AddressJobForms : edit_job(j, f)

SpecAddr == Init /\ [][NextAddr]_vars

\* The row a holds the address of form f.
HoldsAddress(tbl, a, f) ==
  /\ a \in DOMAIN tbl
  /\ tbl[a].house_num_name = f.house_number
  /\ tbl[a].street_name = f.street
  /\ tbl[a].postcode = f.postcode

\* C4: no two Address rows hold the same (house_num_name, street_name,
\* postcode); a row, once there, stays as it is; and whenever add_job,
\* add_job_for_customer, edit_job or add_invoice_address sets an address
\* from a form, the job or customer ends up with the id of the row that
\* holds the form's triple.  So the handlers, in any order and any number of
\* times, end up with the same id for the same triple, and one row for it.
C4_AddressResolution ==
  [][/\ \A a, b \in DOMAIN addresses' :
          addresses'[a] = addresses'[b] => a = b
     /\ \A a \in DOMAIN addresses :
          a \in DOMAIN addresses' /\ addresses'[a] = addresses[a]
     /\ \A f \in AddressJobForms :
          (AddressGiven(f) /\ response' = "Job added successfully!"
             /\ (add_job(f) \/ \E c \in CustomerIds : add_job_for_customer(c, f)))
            => HoldsAddress(addresses', jobs'[autoinc'.job].address_id, f)
     /\ \A f \in AddressJobForms, j \in JobIds :
          (AddressGiven(f) /\ response' = "Job updated successfully!"
             /\ edit_job(j, f))
            => HoldsAddress(addresses', jobs'[j].address_id, f)
     /\ \A f \in AddressForms, c \in CustomerIds :
          (response' = "Invoice address updated successfully!"
             /\ add_invoice_address(c, f))
            => HoldsAddress(addresses', customers'[c].address_id, f)]_vars

\* Two jobs (one of them just edited) and a customer with the same address,
\* and a second address beside it.
C4_Witness ==
  /\ response = "Job updated successfully!"
  /\ Cardinality(DOMAIN addresses) = 2
  /\ \E c \in DOMAIN customers, j, k \in DOMAIN jobs :
       /\ j # k
       /\ jobs[j].address_id # NULL
       /\ jobs[j].address_id = jobs[k].address_id
       /\ jobs[j].address_id = customers[c].address_id

(***************************************************************************)
(* SpecEarn: jobs of several prices are created, repriced, completed paid   *)
(* and unpaid, paid later and deleted.                                      *)
(***************************************************************************)
EarnCompleteForms ==
  {[paid |-> NoneStr, payment_type_id |-> NoneStr],
   [paid |-> <<"t", "r", "u", "e">>, payment_type_id |-> <<"1">>]}

NextEarn ==
  \/ add_zone(<<"N">>)
  \/ \E f \in PriceForms : add_job(f)
  \/ \E j \in JobIds, f \in PriceForms : edit_job(j, f)
  \/ \E j \in JobIds : delete_job(j)
  \/ \E j \in JobIds, f \in EarnCompleteForms : complete_job(j, f)
  \/ \E h \in HistoryIds : mark_job_paid(h)

SpecEarn == Init /\ [][NextEarn]_vars

\* The price of history row h's job as it is now, a null price as 0.
PriceNow(h) ==
  IF history[h].job_id \in DOMAIN jobs /\ jobs[history[h].job_id].price # NULL
  THEN jobs[history[h].job_id].price ELSE 0

\* The sum of PriceNow over the history rows of the given paid flag.
RECURSIVE PriceOfRows(_, _)
PriceOfRows(ids, paid) ==
  IF ids = {} THEN 0
  ELSE LET h == CHOOSE x \in ids : TRUE
       IN (IF history[h].paid = paid THEN PriceNow(h) ELSE 0)
            + PriceOfRows(ids \ {h}, paid)

\* C5: unpaid_earnings is the sum, over the history rows with paid=false, of
\* the current price of the row's job (null as 0): once per unpaid row.
C5_UnpaidEarnings == unpaid_earnings = PriceOfRows(DOMAIN history, FALSE)

\* One job of price 50 with two unpaid completions: its price counts twice.
C5_Witness ==
  /\ \E j \in DOMAIN jobs :
       /\ jobs[j].price = 5000
       /\ Cardinality({h \in HistoryOf(j) : ~history[h].paid}) = 2
  /\ unpaid_earnings = 10000

\* The sum of the prices of the jobs in ids, each once, a null price as 0.
RECURSIVE PriceOfJobs(_)
PriceOfJobs(ids) ==
  IF ids = {} THEN 0
  ELSE LET j == CHOOSE x \in ids : TRUE
       IN (IF jobs[j].price # NULL THEN jobs[j].price ELSE 0)
            + PriceOfJobs(ids \ {j})

\* C6: a job's price is in theoretical_earnings once, whatever its
\* completions, in actual_earnings once per paid history row and in
\* unpaid_earnings once per unpaid row; complete_job and mark_job_paid leave
\* theoretical_earnings as it was.
C6_EarningsPerCompletion ==
  [][/\ theoretical_earnings' = PriceOfJobs(DOMAIN jobs)'
     /\ actual_earnings' = PriceOfRows(DOMAIN history, TRUE)'
     /\ unpaid_earnings' = PriceOfRows(DOMAIN history, FALSE)'
     /\ response' \in {"Job marked as complete!",
                       "Payment recorded successfully!"}
          => theoretical_earnings' = theoretical_earnings]_vars

\* The only job, of price 50, completed paid and then unpaid: 50 actual, 50
\* unpaid, 50 theoretical.
C6_Witness ==
  /\ DOMAIN jobs = {1}
  /\ jobs[1].price = 5000
  /\ DOMAIN history = {1, 2}
  /\ history[1].job_id = 1 /\ history[1].paid
  /\ history[2].job_id = 1 /\ ~history[2].paid
  /\ actual_earnings = 5000
  /\ unpaid_earnings = 5000
  /\ theoretical_earnings = 5000

(***************************************************************************)
(* SpecWeekly: two jobs, of prices 50 and 30, are completed and paid while  *)
(* the clock runs over more than NumWeeks weeks.  It starts from the        *)
(* database after add_zone and two add_job.                                 *)
(***************************************************************************)
InitWeekly ==
  /\ customers = NoRows
  /\ addresses = NoRows
  /\ zones = Insert(NoRows, 1, [name |-> <<"N">>])
  /\ jobs = Insert(Insert(NoRows, 1,
                          NewJob(NULL, JobForm(NoAddress, <<>>, <<"5", "0">>,
                                               <<>>, <<"1">>), NULL)),
                   2, NewJob(NULL, JobForm(NoAddress, <<>>, <<"3", "0">>,
                                           <<>>, <<"1">>), NULL))
  /\ history = NoRows
  /\ autoinc = [customer |-> 0, address |-> 0, zone |-> 1, job |-> 2,
                history |-> 0]
  /\ now = 0
  /\ response = "Job added successfully!"
  /\ inflight = NoRows

\* The clock is read at a week's boundary and one tick before it.
WeeklyInstants ==
  {t \in Instants(NumWeeks + 1) : (t % TicksPerWeek) # 1}

NextWeekly ==
  \/ TickIn(WeeklyInstants)
  \/ \E j \in JobIds, f \in EarnCompleteForms : complete_job(j, f)
  \/ \E h \in HistoryIds : mark_job_paid(h)

SpecWeekly == InitWeekly /\ [][NextWeekly]_vars

\* The bucket (1 the oldest, NumWeeks the newest) of a history row whose
\* timestamp is in [now - NumWeeks weeks, now), and 0 for any other row.
BucketOf(h) ==
  LET age == now - history[h].timestamp
  IN IF age >= 1 /\ age <= NumWeeks * TicksPerWeek
     THEN NumWeeks - ((age - 1) \div TicksPerWeek) ELSE 0

\* The sum of PriceNow over the rows of bucket k, all of them or the paid.
RECURSIVE PriceOfBucket(_, _, _)
PriceOfBucket(ids, k, paidOnly) ==
  IF ids = {} THEN 0
  ELSE LET h == CHOOSE x \in ids : TRUE
       IN (IF BucketOf(h) = k /\ (history[h].paid \/ ~paidOnly)
           THEN PriceNow(h) ELSE 0)
            + PriceOfBucket(ids \ {h}, k, paidOnly)

\* C10: weekly_earnings has NumWeeks = 8 entries, oldest first, entry k for
\* the window [now - (9 - k) weeks, now - (8 - k) weeks) and labelled by the
\* date of the window's start; a history row stamped in [now - 8 weeks, now)
\* adds its job's price to the theoretical value of exactly one entry, and
\* to the actual value of that entry when it is paid; any other row adds to
\* no entry.
C10_WeeklyEarnings ==
  LET we == weekly_earnings(now)
  IN /\ DOMAIN we = 1..8
     /\ \A k \in 1..8 :
          /\ we[k].week = DateOf(now - (9 - k) * TicksPerWeek)
          /\ we[k].theoretical = PriceOfBucket(DOMAIN history, k, FALSE)
          /\ we[k].actual = PriceOfBucket(DOMAIN history, k, TRUE)
     /\ \A k \in 1..7 : we[k].week < we[k + 1].week

\* A paid row stamped exactly 8 weeks ago, in the oldest entry, and an unpaid
\* row stamped exactly a week ago, in the newest but one.
C10_Witness ==
  \E g, h \in DOMAIN history :
    /\ now - history[g].timestamp = NumWeeks * TicksPerWeek
    /\ history[g].paid
    /\ weekly_earnings(now)[1].actual = PriceNow(g)
    /\ now - history[h].timestamp = TicksPerWeek
    /\ ~history[h].paid
    /\ weekly_earnings(now)[NumWeeks].theoretical = PriceNow(h)
    /\ weekly_earnings(now)[NumWeeks].actual = 0

(***************************************************************************)
(* SpecNotFound: every handler that takes an id, asked for rows that are    *)
(* there and for rows that are not, with forms that name a customer and a   *)
(* zone.                                                                    *)
(***************************************************************************)
NotFoundForms ==
  {JobForm(NoAddress, c, <<>>, <<>>, <<"1">>) : c \in {<<>>, <<"1">>}}

NotFoundCompleteForms == {[paid |-> NoneStr, payment_type_id |-> NoneStr]}

NextNotFound ==
  \/ add_zone(<<"N">>)
  \/ \E z \in ZoneIds : delete_zone(z)
  \/ add_customer(<<"7">>, NoneStr)
  \/ \E c \in CustomerIds : customer_detail(c)
  \/ \E c \in CustomerIds : edit_customer(c, <<"7">>)
  \/ \E c \in CustomerIds : delete_customer(c)
  \/ \E c \in CustomerIds, f \in FrameAddressForms : add_invoice_address(c, f)
  \/ \E f \in NotFoundForms : add_job(f)
  \/ \E c \in CustomerIds, f \in NotFoundForms : add_job_for_customer(c, f)
  \/ \E j \in JobIds : job_detail(j)
  \/ \E j \in JobIds, f \in NotFoundForms : edit_job(j, f)
  \/ \E j \in JobIds : delete_job(j)
  \/ \E j \in JobIds, c \in {<<>>, <<"1">>} : add_customer_to_job(j, c)
  \/ \E j \in JobIds, f \in NotFoundCompleteForms : complete_job(j, f)
  \/ \E h \in HistoryIds : mark_job_paid(h)

SpecNotFound == Init /\ [][NextNotFound]_vars

\* The form field raw is the id of no row of table.
NamesNoRow(raw, table) ==
  Truthy(raw) /\ PyInt(raw).ok /\ PyInt(raw).val \notin DOMAIN table

\* C11: each of the twelve handlers that take an id in the path answers 404
\* when no row has that id, and a handler given a form whose customer_id or
\* zone_id is the id of no row answers 404 too.
C11_NotFoundIs404 ==
  [][/\ \A c \in CustomerIds \ DOMAIN customers :
          /\ customer_detail(c) => response' = "404"
          /\ edit_customer(c, <<"7">>) => response' = "404"
          /\ delete_customer(c) => response' = "404"
          /\ \A f \in FrameAddressForms :
               add_invoice_address(c, f) => response' = "404"
          /\ \A f \in NotFoundForms :
               add_job_for_customer(c, f) => response' = "404"
     /\ \A j \in JobIds \ DOMAIN jobs :
          /\ job_detail(j) => response' = "404"
          /\ delete_job(j) => response' = "404"
          /\ \A f \in NotFoundForms : edit_job(j, f) => response' = "404"
          /\ \A f \in NotFoundCompleteForms :
               complete_job(j, f) => response' = "404"
          /\ \A c \in {<<>>, <<"1">>} :
               add_customer_to_job(j, c) => response' = "404"
     /\ \A z \in ZoneIds \ DOMAIN zones :
          delete_zone(z) => response' = "404"
     /\ \A h \in HistoryIds \ DOMAIN history :
          mark_job_paid(h) => response' = "404"
     /\ \A f \in NotFoundForms :
          /\ (NamesNoRow(f.customer_id, customers) /\ add_job(f))
               => response' = "404"
          /\ NamesNoRow(f.zone_id, zones)
               => /\ add_job(f) => response' = "404"
                  /\ \A c \in DOMAIN customers :
                       add_job_for_customer(c, f) => response' = "404"
                  /\ \A j \in DOMAIN jobs :
                       edit_job(j, f) => response' = "404"
     /\ \A j \in DOMAIN jobs, c \in {<<"1">>} :
          (NamesNoRow(c, customers) /\ add_customer_to_job(j, c))
            => response' = "404"]_vars

(***************************************************************************)
(* SpecZone: jobs are created from forms that all carry an address, with a  *)
(* zone that is missing, no number, the id of no zone, or a zone's id.      *)
(***************************************************************************)
ZoneForms ==
  {JobForm([NoAddress EXCEPT !.house_number = h, !.street = <<"S">>],
           <<>>, <<>>, <<>>, z) :
     h \in {<<"1">>, <<"2">>}, z \in ZoneIdInputs \cup {<<>>}}

NextZone ==
  \/ add_zone(<<"N">>)
  \/ \E z \in ZoneIds : delete_zone(z)
  \/ add_customer(<<"7">>, NoneStr)
  \/ \E f \in ZoneForms : add_job(f)
  \/ \E c \in CustomerIds, f \in ZoneForms : add_job_for_customer(c, f)

SpecZone == Init /\ [][NextZone]_vars

\* The zone a form names is missing, no number, or the id of no zone.
NoSuchZone(raw) ==
  \/ raw \in {NoneStr, <<>>, <<"x">>}
  \/ PyInt(raw).ok /\ PyInt(raw).val \notin DOMAIN zones

AtomicForms ==
  {JobForm([NoAddress EXCEPT !.house_number = <<"1">>, !.street = <<"S">>],
           <<>>, <<>>, f, z) :
     f \in {<<>>, <<"1">>}, z \in {<<"1">>, <<"x">>}}

ReturnToJobInputs == {NoneStr, <<"1">>, <<"x">>}

NextAtomic ==
  \/ add_zone(<<"N">>)
  \/ \E r \in ReturnToJobInputs : add_customer(<<"7">>, r)
  \/ \E f \in AtomicForms : add_job(f)
  \/ \E j \in JobIds, f \in AtomicForms : edit_job(j, f)
  \/ \E j \in JobIds : delete_job(j)
  \/ \E j \in JobIds, f \in FrameCompleteForms : complete_job(j, f)
  \/ \E h \in HistoryIds : mark_job_paid(h)

SpecAtomic == Init /\ [][NextAtomic]_vars

\* What the except branches of the handlers flash.
ErrorResponses ==
  {"Error adding customer", "Error updating customer",
   "Error updating invoice address", "Error adding job", "Error updating job",
   "Error deleting job", "Error completing job", "Error adding zone",
   "Error deleting zone", "Error recording payment"}

\* The history rows a step adds for job j.
AddedHistory(j) ==
  {h \in DOMAIN history' \ DOMAIN history : history'[h].job_id = j}

\* C13: a request that ends in a handler's except branch leaves the rows of
\* Customers, Addresses, Zones, Jobs and JobHistory as they were before it;
\* and a step adds a history row for a job exactly when it stores that
\* job's completion dates: the row comes with the dates of one completion,
\* and dateLastDone or a set date_next_due changes only with a new row.
C13_AllOrNothing ==
  [][/\ response' \in ErrorResponses
          => /\ customers' = customers
             /\ addresses' = addresses
             /\ zones' = zones
             /\ jobs' = jobs
             /\ history' = history
     /\ \A j \in DOMAIN jobs :
          /\ AddedHistory(j) # {}
               => /\ j \in DOMAIN jobs'
                  /\ \E r \in ClockReads :
                       /\ jobs'[j] = CompletedJob(jobs[j], r)
                       /\ \A h \in AddedHistory(j) :
                            history'[h].timestamp = r.stamp
          /\ (/\ j \in DOMAIN jobs'
              /\ \/ jobs'[j].dateLastDone # jobs[j].dateLastDone
                 \/ /\ jobs'[j].date_next_due # jobs[j].date_next_due
                    /\ jobs'[j].date_next_due # NULL)
               => AddedHistory(j) # {}]_vars

(***************************************************************************)
(* jobs_completed: the JobHistory rows joined to their Job (and, by outer   *)
(* joins that add no row, to its Customer, Zone and Address), narrowed by   *)
(* the filters of the query string.                                         *)
(***************************************************************************)
UpperCase ==
  <<"A", "B", "C", "D", "E", "F", "G", "H", "I", "J", "K", "L", "M", "N",
    "O", "P", "Q", "R", "S", "T", "U", "V", "W", "X", "Y", "Z">>

LowerCase ==
  <<"a", "b", "c", "d", "e", "f", "g", "h", "i", "j", "k", "l", "m", "n",
    "o", "p", "q", "r", "s", "t", "u", "v", "w", "x", "y", "z">>

Lower(c) ==
  IF \E i \in 1..Len(UpperCase) : UpperCase[i] = c
  THEN LowerCase[CHOOSE i \in 1..Len(UpperCase) : UpperCase[i] = c]
  ELSE c

LowerSeq(s) == [i \in 1..Len(s) |-> Lower(s[i])]

\* SQL LIKE: % stands for any text, _ for any one character.
RECURSIVE LikeMatch(_, _)
LikeMatch(text, pattern) ==
  IF pattern = <<>> THEN text = <<>>
  ELSE IF Head(pattern) = "%"
       THEN \/ LikeMatch(text, Tail(pattern))
            \/ text # <<>> /\ LikeMatch(Tail(text), pattern)
  ELSE IF Head(pattern) = "_"
       THEN text # <<>> /\ LikeMatch(Tail(text), Tail(pattern))
  ELSE /\ text # <<>>
       /\ Head(text) = Head(pattern)
       /\ LikeMatch(Tail(text), Tail(pattern))

\* column.ilike(pattern): lower(column) LIKE lower(pattern)
ILike(column, pattern) ==
  IF column = NoneStr THEN "U"
  ELSE IF LikeMatch(LowerSeq(column), LowerSeq(pattern)) THEN "T" ELSE "F"

SqlEq(a, b) == IF a = NULL \/ b = NULL THEN "U" ELSE IF a = b THEN "T" ELSE "F"

\* A column of the outer-joined Address of job: NULL when it has none.
AddressColumn(job, column) ==
  IF job.address_id \in DOMAIN addresses
  THEN addresses[job.address_id][column] ELSE NoneStr

PaidArg == <<"p", "a", "i", "d">>
UnpaidArg == <<"u", "n", "p", "a", "i", "d">>

\* The ids of the rows of histories, for the query string args.
jobs_completed(args) ==
  LET customer_id == IF Truthy(args.customer_id) THEN args.customer_id
                     ELSE NoneStr
      zone_id == IF Truthy(args.zone_id) THEN args.zone_id ELSE NoneStr
      paid_filter == IF args.paid = NoneStr THEN <<"a", "l", "l">>
                     ELSE args.paid
      payment_type_raw == IF Truthy(args.payment_type_id)
                          THEN args.payment_type_id ELSE NoneStr
      payment_type_id == IF Truthy(payment_type_raw)
                         THEN parse_payment_type_id(payment_type_raw)
                         ELSE NULL
      search_term == Strip(IF args.search = NoneStr THEN <<>> ELSE args.search)
      like_term == <<"%">> \o search_term \o <<"%">>
      Keeps(h) ==
        LET job == jobs[history[h].job_id]
        IN /\ (Truthy(customer_id) /\ PyInt(customer_id).ok)
                => SqlEq(job.customer_id, PyInt(customer_id).val) = "T"
           /\ (Truthy(zone_id) /\ PyInt(zone_id).ok)
                => SqlEq(job.zone_id, PyInt(zone_id).val) = "T"
           /\ paid_filter = PaidArg => history[h].paid = TRUE
           /\ paid_filter = UnpaidArg => history[h].paid = FALSE
           /\ payment_type_id # NULL
                => SqlEq(history[h].payment_type_id, payment_type_id) = "T"
           /\ Truthy(search_term)
                => SqlOr(SqlOr(ILike(job.info, like_term),
                               ILike(AddressColumn(job, "house_num_name"),
                                     like_term)),
                         SqlOr(ILike(AddressColumn(job, "street_name"),
                                     like_term),
                               ILike(AddressColumn(job, "postcode"),
                                     like_term))) = "T"
  IN {h \in DOMAIN history : history[h].job_id \in DOMAIN jobs /\ Keeps(h)}

(***************************************************************************)
(* SpecCompleted: jobs with and without a customer, an address and a note,  *)
(* in two zones, completed paid and unpaid.                                 *)
(***************************************************************************)
CompletedForms ==
  {[info |-> i] @@ JobForm(a, c, <<>>, <<>>, <<"1">>) :
     i \in {<<>>, <<"a", "_">>},
     a \in {NoAddress} \cup FrameAddressForms,
     c \in {<<>>, <<"1">>}}

\* An edit that moves the job to zone 2 and clears its note.
CompletedEditForms == {JobForm(NoAddress, <<>>, <<>>, <<>>, <<"2">>)}

CompletedCompleteForms ==
  [paid : {<<"t", "r", "u", "e">>}, payment_type_id : {<<"1">>, <<"2">>}]
    \cup {[paid |-> NoneStr, payment_type_id |-> NoneStr]}

NextCompleted ==
  \/ add_zone(<<"N">>)
  \/ add_customer(<<"7">>, NoneStr)
  \/ \E f \in CompletedForms : add_job(f)
  \/ \E j \in JobIds, f \in CompletedEditForms : edit_job(j, f)
  \/ \E j \in JobIds, f \in CompletedCompleteForms : complete_job(j, f)
  \/ \E h \in HistoryIds : mark_job_paid(h)

SpecCompleted == Init /\ [][NextCompleted]_vars

\* The query strings asked: each filter absent, valid and invalid.
CompletedArgs ==
  [customer_id : {NoneStr, <<"1">>, <<"x">>},
   zone_id : {NoneStr, <<"2">>, <<"x">>},
   paid : {NoneStr, PaidArg, UnpaidArg, <<"x">>},
   payment_type_id : {NoneStr, <<"1">>, <<"2">>, <<"4">>},
   search : {NoneStr, <<" ", "s">>, <<"A">>, <<"_">>}]

\* term is a part of text, letters compared without their case.
ContainsText(text, term) ==
  /\ text # NoneStr
  /\ \E i \in 1..(Len(text) - Len(term) + 1) :
       LowerSeq(SubSeq(text, i, i + Len(term) - 1)) = LowerSeq(term)

\* Row h satisfies every filter of args that is given and valid.
SatisfiesFilters(h, args) ==
  LET job == jobs[history[h].job_id]
      term == IF args.search = NoneStr THEN <<>> ELSE Strip(args.search)
  IN /\ PyInt(args.customer_id).ok
          => job.customer_id = PyInt(args.customer_id).val
     /\ PyInt(args.zone_id).ok => job.zone_id = PyInt(args.zone_id).val
     /\ args.paid = PaidArg => history[h].paid
     /\ args.paid = UnpaidArg => ~history[h].paid
     /\ (/\ PyInt(args.payment_type_id).ok
         /\ PyInt(args.payment_type_id).val \in PAYMENT_TYPE_IDS)
          => history[h].payment_type_id = PyInt(args.payment_type_id).val
     /\ term # <<>>
          => \/ ContainsText(job.info, term)
             \/ \E column \in {"house_num_name", "street_name", "postcode"} :
                  ContainsText(AddressColumn(job, column), term)

\* C14: for every query string, jobs_completed returns exactly the
\* JobHistory rows that satisfy each filter that is given and valid: the
\* customer and the zone of the row's job, the row's paid flag and payment
\* type, and the search text as a part (letters' case aside) of the job's
\* note or of a field of its address; an absent or invalid filter narrows
\* nothing.
C14_CompletedFilters ==
  \A args \in CompletedArgs :
    jobs_completed(args) = {h \in DOMAIN history : SatisfiesFilters(h, args)}

(***************************************************************************)
(* SpecConcurrent: add_job requests served by several workers.  A request   *)
(* is two steps: the SELECT of its address, and the rest of the handler up  *)
(* to its commit.  What a request flushed is seen by no other before it     *)
(* commits, and the address table has no unique key to make one wait for    *)
(* the other.                                                               *)
(***************************************************************************)
MaxRequests == 2

RequestIds == 1..MaxRequests

ConcurrentForms ==
  {JobForm([NoAddress EXCEPT !.house_number = h, !.street = <<"S">>],
           <<>>, <<>>, <<>>, <<"1">>) : h \in {<<"1">>, <<"2">>}}

\* add_job up to existing_address = Address.query.filter_by(...).first()
add_job_lookup(p, form) ==
  /\ p \notin DOMAIN inflight
  /\ AddressGiven(form)
  /\ LET m == AddressMatches(addresses, form.house_number, form.street,
                             form.postcode)
     IN \E a \in IF m = {} THEN {NULL} ELSE m :
          inflight' = Insert(inflight, p,
                             [form |-> form, existing_address |-> a])
  /\ UNCHANGED <<tables, now, response>>

\* add_job from `if existing_address:` to its answer.
add_job_commit(p) ==
  /\ p \in DOMAIN inflight
  /\ inflight' = Delete(inflight, p)
  /\ LET form == inflight[p].form
         existing_address == inflight[p].existing_address
         new == autoinc.address + 1
         address_id == IF existing_address # NULL THEN existing_address
                       ELSE new
     IN IF ZoneError(form.zone_id) # ""
        THEN /\ response' = ZoneError(form.zone_id)
             /\ UNCHANGED <<tables, now>>
        ELSE /\ autoinc.job < MaxJobs
             /\ address_id <= MaxAddresses
             /\ addresses' =
                  IF existing_address # NULL THEN addresses
                  ELSE Insert(addresses, new,
                              [house_num_name |-> form.house_number,
                               street_name |-> form.street,
                               postcode |-> form.postcode])
             /\ jobs' = Insert(jobs, autoinc.job + 1,
                               NewJob(OptionalCustomer(form.customer_id),
                                      form, address_id))
             /\ autoinc' = [autoinc EXCEPT
                              !.job = autoinc.job + 1,
                              !.address = IF existing_address # NULL THEN @
                                          ELSE new]
             /\ response' = "Job added successfully!"
             /\ UNCHANGED <<customers, zones, history, now>>

\* The database after add_zone.
InitConcurrent ==
  /\ customers = NoRows
  /\ addresses = NoRows
  /\ zones = Insert(NoRows, 1, [name |-> <<"N">>])
  /\ jobs = NoRows
  /\ history = NoRows
  /\ autoinc = [customer |-> 0, address |-> 0, zone |-> 1, job |-> 0,
                history |-> 0]
  /\ now = 0
  /\ response = "Zone added successfully!"
  /\ inflight = NoRows

NextConcurrent ==
  \/ \E p \in RequestIds, f \in ConcurrentForms : add_job_lookup(p, f)
  \/ \E p \in RequestIds : add_job_commit(p)
  \/ \E j \in JobIds : delete_job(j)

SpecConcurrent == InitConcurrent /\ [][NextConcurrent]_vars

\* C15: once every request has committed, no two Address rows hold the same
\* (house_num_name, street_name, postcode), and two jobs whose addresses
\* hold the same triple refer to the same row.
C15_ConcurrentDedup ==
  inflight = NoRows
    => /\ \A a, b \in DOMAIN addresses : addresses[a] = addresses[b] => a = b
       /\ \A j, k \in DOMAIN jobs :
            (/\ jobs[j].address_id \in DOMAIN addresses
             /\ jobs[k].address_id \in DOMAIN addresses
             /\ addresses[jobs[j].address_id] = addresses[jobs[k].address_id])
              => jobs[j].address_id = jobs[k].address_id

(***************************************************************************)
(* stats: the payment types of the completed jobs, by zone.  The counts     *)
(* are a dict keyed by the zone's name.                                     *)
(***************************************************************************)
NoZoneLabel == <<"N", "o", " ", "Z", "o", "n", "e">>

\* JobHistory joined to Job, outer-joined to Zone, payment type not null.
payment_query ==
  {h \in DOMAIN history : /\ history[h].job_id \in DOMAIN jobs
                          /\ history[h].payment_type_id # NULL}

\* zone_name = result.zone_name or 'No Zone'
ResultZoneName(h) ==
  LET zone_id == jobs[history[h].job_id].zone_id
      zone_name == IF zone_id \in DOMAIN zones THEN zones[zone_id].name
                   ELSE NoneStr
  IN IF Truthy(zone_name) THEN zone_name ELSE NoZoneLabel

zone_payment_counts ==
  LET names == {zones[z].name : z \in DOMAIN zones}
                 \cup {ResultZoneName(h) : h \in payment_query}
  IN [n \in names |->
        [t \in PAYMENT_TYPE_IDS |->
           Cardinality({h \in payment_query :
                          /\ ResultZoneName(h) = n
                          /\ history[h].payment_type_id = t})]]

(***************************************************************************)
(* SpecPayments: two zones, of the same name or not; jobs in either, moved  *)
(* to no zone or left in a deleted one, completed paid and unpaid, and paid *)
(* later.                                                                   *)
(***************************************************************************)
\* The database after two add_zone.
InitPayments ==
  /\ customers = NoRows
  /\ addresses = NoRows
  /\ \E name \in {<<"N">>, <<"M">>} :
       zones = Insert(Insert(NoRows, 1, [name |-> <<"N">>]),
                      2, [name |-> name])
  /\ jobs = NoRows
  /\ history = NoRows
  /\ autoinc = [customer |-> 0, address |-> 0, zone |-> 2, job |-> 0,
                history |-> 0]
  /\ now = 0
  /\ response = "Zone added successfully!"
  /\ inflight = NoRows

PaymentsForms ==
  {JobForm(NoAddress, <<>>, <<>>, <<>>, z) : z \in {<<"1">>, <<"2">>}}

PaymentsEditForms == {JobForm(NoAddress, <<>>, <<>>, <<>>, <<>>)}

NextPayments ==
  \/ \E z \in ZoneIds : delete_zone(z)
  \/ \E f \in PaymentsForms : add_job(f)
  \/ \E j \in JobIds, f \in PaymentsEditForms : edit_job(j, f)
  \/ \E j \in JobIds, f \in CompletedCompleteForms : complete_job(j, f)
  \/ \E h \in HistoryIds : mark_job_paid(h)

SpecPayments == InitPayments /\ [][NextPayments]_vars

\* The history rows of payment type t whose job's zone_id is in zone_ids.
RowsOfZones(zone_ids, t) ==
  {h \in DOMAIN history : /\ jobs[history[h].job_id].zone_id \in zone_ids
                          /\ history[h].payment_type_id = t}

\* The zone ids of the jobs that are the id of no zone (null or dangling).
NoZoneIds ==
  {jobs[j].zone_id : j \in DOMAIN jobs} \ DOMAIN zones

\* C16: zone_payment_counts has one bucket for each zone, and no other but
\* "No Zone"; a zone's bucket counts, for each payment type, the history
\* rows of that type whose job is in the zone; "No Zone" counts those whose
\* job has no zone or the id of no zone; and all the counts together are as
\* many as the history rows with a payment type, so that a row paid later
\* through mark_job_paid (paid, with no payment type) is in no bucket.
C16_ZonePaymentDistribution ==
  LET counts == zone_payment_counts
      buckets == DOMAIN counts \ {NoZoneLabel}
      cells == (DOMAIN counts) \X PAYMENT_TYPE_IDS
  IN /\ Cardinality(buckets) = Cardinality(DOMAIN zones)
     /\ \A z \in DOMAIN zones, t \in PAYMENT_TYPE_IDS :
          /\ zones[z].name \in buckets
          /\ counts[zones[z].name][t] = Cardinality(RowsOfZones({z}, t))
     /\ \A t \in PAYMENT_TYPE_IDS :
          Cardinality(RowsOfZones(NoZoneIds, t))
            = IF NoZoneLabel \in DOMAIN counts THEN counts[NoZoneLabel][t]
              ELSE 0
     /\ SumOver(cells, [p \in cells |-> counts[p[1]][p[2]]])
          = Cardinality({h \in DOMAIN history :
                           history[h].payment_type_id # NULL})

(***************************************************************************)
(* Properties of Spec: the list of jobs_due.                                *)
(***************************************************************************)
\* C17: at a request read at now, jobs_due lists a job iff its
\* date_next_due is set and not after now, or its date_next_due and its
\* dateLastDone are both null; a job that is due later is not listed.
C17_JobsDueListsDue ==
  \A j \in DOMAIN jobs :
    j \in due_jobs
      <=> \/ jobs[j].date_next_due # NULL /\ jobs[j].date_next_due <= now
          \/ jobs[j].date_next_due = NULL /\ jobs[j].dateLastDone = NULL

\* C18: every job without a frequency has no date_next_due, and every job
\* with a date_next_due has a dateLastDone.
C18_DueDateNeedsFrequency ==
  \A j \in DOMAIN jobs :
    /\ jobs[j].frequency = NULL => jobs[j].date_next_due = NULL
    /\ jobs[j].date_next_due # NULL => jobs[j].dateLastDone # NULL

\* After an edit: a completed job has no frequency, beside a job with a
\* frequency whose next due date is set.
C18_Witness ==
  /\ response = "Job updated successfully!"
  /\ \E j, k \in DOMAIN jobs :
       /\ jobs[j].frequency = NULL
       /\ jobs[j].dateLastDone # NULL
       /\ HistoryOf(j) # {}
       /\ jobs[k].date_next_due # NULL
       /\ jobs[k].frequency # NULL

\* C19: every history row that is paid has a payment type of
\* PAYMENT_TYPE_IDS, and every row that is not paid has none, whether the
\* row was paid when the job was completed or later by mark_job_paid.
C19_PaidHasPaymentType ==
  \A h \in DOMAIN history :
    /\ history[h].paid => history[h].payment_type_id \in PAYMENT_TYPE_IDS
    /\ ~history[h].paid => history[h].payment_type_id = NULL

\* C20: every job with a frequency has a date_next_due or has no
\* dateLastDone, so that build_due_condition selects it once the reference
\* time has reached its date_next_due, or at every reference time: left
\* alone, the job becomes due.  This is so also for a job whose frequency
\* was cleared and set again, or set after a completion without one.
C20_ScheduledBecomesDue ==
  \A j \in DOMAIN jobs :
    jobs[j].frequency # NULL
      => /\ jobs[j].date_next_due # NULL \/ jobs[j].dateLastDone = NULL
         /\ \E t \in RefTimes : build_due_condition(jobs[j], t) = "T"

\* C21: at every reference time, a job that build_due_condition selects is
\* also selected by build_schedule_condition, so it is in the list of
\* jobs_due and of the dashboard, and due_jobs_count is at most the number
\* of listed jobs.
C21_DueIsListed ==
  \A t \in RefTimes :
    /\ \A j \in DOMAIN jobs :
         build_due_condition(jobs[j], t) = "T"
           => build_schedule_condition(jobs[j]) = "T" /\ j \in due_jobs
    /\ due_jobs_count(t) <= Cardinality(due_jobs)

\* A job due by its date_next_due and listed, beside a completed job
\* without frequency that is neither due nor listed.
C21_Witness ==
  \E j, k \in DOMAIN jobs :
    /\ jobs[j].date_next_due # NULL
    /\ \E t \in RefTimes : build_due_condition(jobs[j], t) = "T"
    /\ j \in due_jobs
    /\ jobs[k].dateLastDone # NULL
    /\ k \notin due_jobs
    /\ \A t \in RefTimes : build_due_condition(jobs[k], t) # "T"

(***************************************************************************)
(* Properties of SpecEarn: payment.                                         *)
(***************************************************************************)
\* The sum, over the history rows in ids, of the price of the row's job.
RECURSIVE PriceOfHistory(_)
PriceOfHistory(ids) ==
  IF ids = {} THEN 0
  ELSE LET h == CHOOSE x \in ids : TRUE
       IN PriceNow(h) + PriceOfHistory(ids \ {h})

\* C22: unpaid_earnings and actual_earnings together are the sum of the
\* job's price over all history rows; mark_job_paid on an unpaid row takes
\* the price of its job from unpaid_earnings and adds it to
\* actual_earnings, and on a paid row changes neither; and a paid row stays
\* a paid row in every step.
C22_PaidMovesEarnings ==
  [][/\ unpaid_earnings' + actual_earnings'
          = PriceOfHistory(DOMAIN history)'
     /\ \A h \in DOMAIN history :
          /\ (mark_job_paid(h) /\ ~history[h].paid)
               => /\ unpaid_earnings' = unpaid_earnings - PriceNow(h)
                  /\ actual_earnings' = actual_earnings + PriceNow(h)
          /\ (mark_job_paid(h) /\ history[h].paid)
               => /\ unpaid_earnings' = unpaid_earnings
                  /\ actual_earnings' = actual_earnings
          /\ history[h].paid => h \in DOMAIN history' /\ history'[h].paid]_vars

\* A row of a priced job was paid after its completion (it is paid and has
\* no payment type), and another row is still unpaid.
C22_Witness ==
  /\ response = "Payment recorded successfully!"
  /\ \E h, g \in DOMAIN history :
       /\ history[h].paid
       /\ history[h].payment_type_id = NULL
       /\ PriceNow(h) > 0
       /\ ~history[g].paid
       /\ PriceNow(g) > 0
  /\ actual_earnings > 0
  /\ unpaid_earnings > 0

(***************************************************************************)
(* SpecFrequency: jobs are created, edited and completed with a frequency   *)
(* that is missing, a number of weeks, 0, negative, or no number.           *)
(***************************************************************************)
SignedFrequencyInputs == FrequencyInputs \cup {<<"-", "1">>, <<"2">>}

FrequencyForms ==
  {JobForm(NoAddress, <<>>, <<>>, f, <<"1">>) : f \in SignedFrequencyInputs}

NextFrequency ==
  \/ add_zone(<<"N">>)
  \/ add_customer(<<"7">>, NoneStr)
  \/ \E f \in FrequencyForms : add_job(f)
  \/ \E c \in CustomerIds, f \in FrequencyForms : add_job_for_customer(c, f)
  \/ \E j \in JobIds, f \in FrequencyForms : edit_job(j, f)
  \/ \E j \in JobIds, f \in NotFoundCompleteForms : complete_job(j, f)

SpecFrequency == Init /\ [][NextFrequency]_vars

\* C23: the frequency of every job is null or a positive multiple of
\* DaysPerWeek, whatever frequency was submitted; and a date_next_due, which
\* complete_job sets, is not before the day of the completion.
C23_FrequencyPositiveWeeks ==
  \A j \in DOMAIN jobs :
    /\ \/ jobs[j].frequency = NULL
       \/ jobs[j].frequency > 0 /\ jobs[j].frequency % DaysPerWeek = 0
    /\ jobs[j].date_next_due # NULL
         => DateOf(jobs[j].date_next_due) >= jobs[j].dateLastDone

(***************************************************************************)
(* Properties of SpecAll: completion and history.                           *)
(***************************************************************************)
\* C24: a job has a dateLastDone iff it has a history row; and in every
\* step a job that stays keeps its dateLastDone, once set, and its history
\* rows.
C24_LastDoneIffHistory ==
  [][/\ \A j \in DOMAIN jobs' :
          jobs'[j].dateLastDone # NULL
            <=> \E h \in DOMAIN history' : history'[h].job_id = j
     /\ \A j \in DOMAIN jobs \cap DOMAIN jobs' :
          /\ jobs[j].dateLastDone # NULL => jobs'[j].dateLastDone # NULL
          /\ \A h \in HistoryOf(j) :
               h \in DOMAIN history' /\ history'[h].job_id = j]_vars

\* The deletion of a completed job was refused: it has its history row and
\* its dateLastDone, beside a job with neither.
C24_Witness ==
  /\ response = "Error deleting job"
  /\ \E j, k \in DOMAIN jobs :
       /\ HistoryOf(j) # {}
       /\ jobs[j].dateLastDone # NULL
       /\ HistoryOf(k) = {}
       /\ jobs[k].dateLastDone = NULL

=============================================================================
